---------------------------- MODULE Spec2Model ----------------------------
(***************************************************************************)
(* Invisible Line Break plugin (src/main.ts).                              *)
(*                                                                         *)
(* The plugin registers two markdown post-processors.  Each one, when the  *)
(* plugin is enabled, walks the text nodes of a rendered element, collects *)
(* those containing the trigger word and replaces each of them by text     *)
(* fragments interleaved with line-break nodes.                            *)
(*                                                                         *)
(* Strings are sequences of characters (one-character strings).  The DOM   *)
(* is an arena: a sequence of node records addressed by index; index 0 is  *)
(* null.  A node detached from the tree keeps its slot in the arena, with  *)
(* parent 0, as a DOM node that is no longer referenced by its parent.     *)
(***************************************************************************)
EXTENDS Integers, Sequences, FiniteSets, TLC

VARIABLES
    settings,   \* this.settings                              (main.ts:16)
    pc,         \* where the plugin / the render pipeline is
    hook,       \* which registered post-processor runs: 1 or 2 (main.ts:22,27)
    nodes,      \* the DOM arena of the element being rendered
    walker,     \* TreeWalker.currentNode                      (main.ts:48)
    textNodes,  \* const textNodes: Text[]                     (main.ts:54)
    idx,        \* position of textNodes.forEach               (main.ts:62)
    visited,    \* history: the nodes walker.nextNode() returned in this call
    pre,        \* history: the arena when the current call started
    last        \* history: what the latest forEach callback did

vars == <<settings, pc, hook, nodes, walker, textNodes, idx, visited, pre, last>>

---------------------------------------------------------------------------
(* Bounds of the model *)

\* longest text payload generated over Alphabet
MaxLen == 3
\* most filler siblings placed before, and after, the leaf under study
MaxSiblings == 1

---------------------------------------------------------------------------
(* Characters and strings *)

\* U+200B, the character that '&#8203;' denotes (main.ts:104)
ZWSP == "U+200B"

Alphabet == {"a", ZWSP}

\* '.break.' (main.ts:10)
DefaultTriggerWord == <<".", "b", "r", "e", "a", "k", ".">>

\* String.prototype.includes (main.ts:57, main.ts:64); true for the empty needle
includes(s, sep) ==
    \E i \in 0..(Len(s) - Len(sep)) : SubSeq(s, i + 1, i + Len(sep)) = sep

\* index of the first occurrence of a non-empty sep in s, 0 when there is none
IndexOf(s, sep) ==
    LET hits == {i \in 1..(Len(s) - Len(sep) + 1) : SubSeq(s, i, i + Len(sep) - 1) = sep}
    IN  IF hits = {} THEN 0 ELSE CHOOSE i \in hits : \A j \in hits : i <= j

\* a bug the split could have: after a match, resume one character later
\* instead of after the whole separator
RECURSIVE SplitOverlapping(_, _)
SplitOverlapping(s, sep) ==
    LET p == IndexOf(s, sep)
    IN  IF p = 0 THEN <<s>>
        ELSE <<SubSeq(s, 1, p - 1)>> \o SplitOverlapping(SubSeq(s, p + 1, Len(s)), sep)

\* String.prototype.split with a non-empty string separator: left to right,
\* each match consumed whole
RECURSIVE SplitFrom(_, _)
SplitFrom(s, sep) ==
    LET p == IndexOf(s, sep)
    IN  IF p = 0 THEN <<s>>
        ELSE <<SubSeq(s, 1, p - 1)>> \o SplitFrom(SubSeq(s, p + Len(sep), Len(s)), sep)

\* String.prototype.split (main.ts:75): an empty separator splits into the
\* single characters (none for the empty string)
split(s, sep) ==
    IF sep = <<>> THEN [i \in 1..Len(s) |-> <<s[i]>>] ELSE SplitFrom(s, sep)

---------------------------------------------------------------------------
(* Settings *)

BreakMethods == {"zero-width", "html-br", "css-break"}

\* a breakMethod the stored data may hold that the type does not list
UnknownMethod == "unknown"

TriggerWords == {<<>>, <<ZWSP>>, <<"a", "a">>}

SettingKeys == {"triggerWord", "breakMethod", "enabled"}

DEFAULT_SETTINGS ==
    [triggerWord |-> DefaultTriggerWord, breakMethod |-> "zero-width", enabled |-> TRUE]

\* what loadData() may resolve to: null (the empty record) or any partial record
StoredData ==
    {[k \in D |-> CASE k = "triggerWord" -> tw
                    [] k = "breakMethod" -> bm
                    [] OTHER -> en] :
        D \in SUBSET SettingKeys,
        tw \in TriggerWords \cup {DefaultTriggerWord},
        bm \in BreakMethods \cup {UnknownMethod},
        en \in BOOLEAN}

\* Object.assign({}, DEFAULT_SETTINGS, data) (main.ts:40)
loadSettings(data) ==
    [k \in SettingKeys |-> IF k \in DOMAIN data THEN data[k] ELSE DEFAULT_SETTINGS[k]]

---------------------------------------------------------------------------
(* DOM nodes *)

NoStyle == {}

TextNode(data, parent) ==
    [type |-> "text", tag |-> "#text", style |-> NoStyle, data |-> data,
     children |-> <<>>, parent |-> parent]

Element(tag, style, children, parent) ==
    [type |-> "element", tag |-> tag, style |-> style, data |-> <<>>,
     children |-> children, parent |-> parent]

\* the element handed to the post-processor (main.ts:22): the first arena slot
RootOf(ns) == IF Len(ns) = 0 THEN 0 ELSE 1

RECURSIVE Preorder(_, _)
RECURSIVE PreorderAll(_, _)
\* the subtree of n in document order
Preorder(ns, n) == <<n>> \o PreorderAll(ns, ns[n].children)
PreorderAll(ns, kids) ==
    IF kids = <<>> THEN <<>>
    ELSE Preorder(ns, Head(kids)) \o PreorderAll(ns, Tail(kids))

IsText(ns, n) == ns[n].type = "text"

\* the text nodes under the root, in document order
TextLeaves(ns) ==
    IF Len(ns) = 0 THEN <<>>
    ELSE SelectSeq(Preorder(ns, RootOf(ns)), LAMBDA n : IsText(ns, n))

Range(f) == {f[i] : i \in DOMAIN f}

\* a bug: the walk looks at the root's own children only
nextNodeAmongChildren(ns, cur) ==
    LET order == <<RootOf(ns)>> \o ns[RootOf(ns)].children
        at    == CHOOSE i \in 1..Len(order) : order[i] = cur
        later == {i \in (at + 1)..Len(order) : IsText(ns, order[i])}
    IN  IF later = {} THEN 0
        ELSE order[CHOOSE i \in later : \A j \in later : i <= j]

\* walker.nextNode() with NodeFilter.SHOW_TEXT (main.ts:48-56): the first text
\* node after cur in document order under the root, 0 (null) when there is none
nextNode(ns, cur) ==
    LET order == Preorder(ns, RootOf(ns))
        at    == CHOOSE i \in 1..Len(order) : order[i] = cur
        later == {i \in (at + 1)..Len(order) : IsText(ns, order[i])}
    IN  IF later = {} THEN 0
        ELSE order[CHOOSE i \in later : \A j \in later : i <= j]

---------------------------------------------------------------------------
(* createLineBreak *)

ZeroWidthShape ==
    [tag |-> "span",
     style |-> {<<"display", "block">>, <<"height", "1em">>, <<"lineHeight", "1em">>},
     content |-> <<<<ZWSP>>>>]

BrShape == [tag |-> "br", style |-> NoStyle, content |-> <<>>]

CssBreakShape ==
    [tag |-> "span",
     style |-> {<<"display", "block">>, <<"content", "\"\"">>, <<"marginTop", "1em">>},
     content |-> <<>>]

\* a bug the dispatch could have: the default arm falls into the first case
createLineBreakDefaultFirst(method) ==
    CASE method = "html-br"   -> BrShape
      [] method = "css-break" -> CssBreakShape
      [] OTHER                -> ZeroWidthShape

\* createLineBreak (main.ts:97-120): the element made for a breakMethod, as its
\* tag, its inline style and the text nodes its innerHTML parses to
createLineBreak(method) ==
    CASE method = "zero-width" -> ZeroWidthShape
      [] method = "html-br"    -> BrShape
      [] method = "css-break"  -> CssBreakShape
      [] OTHER                 -> BrShape

---------------------------------------------------------------------------
(* replaceTextNodeWithBreaks *)

\* a fragment under construction: the arena and the fragment's child list
\* fragment.appendChild(document.createTextNode(part)) (main.ts:85)
AppendTextNode(b, part) ==
    [ns |-> Append(b.ns, TextNode(part, 0)), frag |-> Append(b.frag, Len(b.ns) + 1)]

\* fragment.appendChild(this.createLineBreak()) (main.ts:89)
AppendLineBreak(b, shape) ==
    LET el   == Len(b.ns) + 1
        kids == [i \in 1..Len(shape.content) |-> el + i]
    IN  [ns |-> b.ns \o <<Element(shape.tag, shape.style, kids, 0)>>
                     \o [i \in 1..Len(shape.content) |-> TextNode(shape.content[i], el)],
         frag |-> Append(b.frag, el)]

\* a bug: an empty part gets a text node too
KeepPartAlways(part) == TRUE

\* if (part.length > 0) (main.ts:84)
KeepPart(part) == Len(part) > 0

\* if (index < parts.length - 1), index counted from 1 here (main.ts:88)
BreakAfter(index, parts) == index < Len(parts)

\* parts.forEach((part, index) => ...) from position index on (main.ts:83-91)
RECURSIVE BuildFragment(_, _, _, _)
BuildFragment(b, parts, index, method) ==
    IF index > Len(parts) THEN b
    ELSE LET b1 == IF KeepPart(parts[index]) THEN AppendTextNode(b, parts[index]) ELSE b
             b2 == IF BreakAfter(index, parts)
                   THEN AppendLineBreak(b1, createLineBreak(method)) ELSE b1
         IN  BuildFragment(b2, parts, index + 1, method)

PositionIn(kids, n) == CHOOSE i \in 1..Len(kids) : kids[i] = n

\* a bug: the fragment is appended to the parent and the old child removed
replaceChildAtEnd(ns, parent, frag, old) ==
    LET kids == ns[parent].children
        k    == PositionIn(kids, old)
        new  == SubSeq(kids, 1, k - 1) \o SubSeq(kids, k + 1, Len(kids)) \o frag
    IN  [n \in 1..Len(ns) |->
            IF n = parent THEN [ns[n] EXCEPT !.children = new]
            ELSE IF n = old THEN [ns[n] EXCEPT !.parent = 0]
            ELSE IF n \in Range(frag) THEN [ns[n] EXCEPT !.parent = parent]
            ELSE ns[n]]

\* parent.replaceChild(fragment, textNode) (main.ts:94): the fragment's
\* children take the place of old, which is detached
replaceChild(ns, parent, frag, old) ==
    LET kids == ns[parent].children
        k    == PositionIn(kids, old)
        new  == SubSeq(kids, 1, k - 1) \o frag \o SubSeq(kids, k + 1, Len(kids))
    IN  [n \in 1..Len(ns) |->
            IF n = parent THEN [ns[n] EXCEPT !.children = new]
            ELSE IF n = old THEN [ns[n] EXCEPT !.parent = 0]
            ELSE IF n \in Range(frag) THEN [ns[n] EXCEPT !.parent = parent]
            ELSE ns[n]]

\* a bug: the defensive re-check of the split is missing
TooFewPartsNever(parts) == FALSE

\* if (parts.length <= 1) return (main.ts:77)
TooFewParts(parts) == Len(parts) <= 1

\* replaceTextNodeWithBreaks (main.ts:74-95): the arena afterwards and the
\* fragment that was spliced in (empty when the call returned early)
replaceTextNodeWithBreaks(ns, textNode, text, s) ==
    LET parts  == split(text, s.triggerWord)
        parent == ns[textNode].parent
    IN  IF TooFewParts(parts) THEN [ns |-> ns, frag |-> <<>>, done |-> FALSE]
        ELSE IF parent = 0 THEN [ns |-> ns, frag |-> <<>>, done |-> FALSE]
        ELSE LET b == BuildFragment([ns |-> ns, frag |-> <<>>], parts, 1, s.breakMethod)
             IN  [ns |-> replaceChild(b.ns, parent, b.frag, textNode),
                  frag |-> b.frag, done |-> TRUE]

---------------------------------------------------------------------------
(* The rendered trees the host hands to the post-processors *)

Strings(n) == UNION {[1..k -> Alphabet] : k \in 0..n}

\* texts holding the default trigger word: alone, between two texts, twice in
\* a row, leading, and written so that two occurrences seem to overlap
ScenarioTexts ==
    {DefaultTriggerWord,
     <<"a">> \o DefaultTriggerWord \o <<"a">>,
     <<"a">> \o DefaultTriggerWord \o DefaultTriggerWord \o <<"a">>,
     DefaultTriggerWord \o <<"a">>,
     DefaultTriggerWord \o <<"b", "r", "e", "a", "k", ".">>}

Texts == Strings(MaxLen) \cup ScenarioTexts

\* a child of the root: a text node, or an <em> holding one text node
Items == [wrap : BOOLEAN, text : Texts]

FillerBefore == [wrap |-> FALSE, text |-> <<"a", ZWSP, "a", "a">>]
FillerAfter == [wrap |-> TRUE, text |-> <<"a", "a", ZWSP>>]

RenderedTrees ==
    {[i \in 1..b |-> FillerBefore] \o <<it>> \o [i \in 1..a |-> FillerAfter] :
        b \in 0..MaxSiblings, a \in 0..MaxSiblings, it \in Items}

AddItem(ns, item) ==
    LET id   == Len(ns) + 1
        root == [ns EXCEPT ![1].children = Append(@, id)]
    IN  IF item.wrap
        THEN root \o <<Element("em", NoStyle, <<id + 1>>, 1), TextNode(item.text, id)>>
        ELSE Append(root, TextNode(item.text, 1))

RECURSIVE AddItems(_, _)
AddItems(ns, items) ==
    IF items = <<>> THEN ns ELSE AddItems(AddItem(ns, Head(items)), Tail(items))

\* the element of a render pass: a <div> with the items as children
BuildArena(items) == AddItems(<<Element("div", NoStyle, <<>>, 0)>>, items)

---------------------------------------------------------------------------
(* State machine *)

\* this.settings before onload has run
Undefined == <<>>

NoSplice ==
    [kind |-> "none", leaf |-> 0, text |-> <<>>, parent |-> 0, before |-> <<>>,
     frag |-> <<>>]

NoCall ==
    /\ walker' = 0
    /\ textNodes' = <<>>
    /\ idx' = 0
    /\ visited' = <<>>
    /\ last' = NoSplice

Init ==
    /\ settings = Undefined
    /\ pc = "unloaded"
    /\ hook = 0
    /\ nodes = <<>>
    /\ walker = 0
    /\ textNodes = <<>>
    /\ idx = 0
    /\ visited = <<>>
    /\ pre = <<>>
    /\ last = NoSplice

\* onload (main.ts:18-33): the settings are loaded and both post-processors
\* registered
onload(data) ==
    /\ pc = "unloaded"
    /\ settings' = loadSettings(data)
    /\ pc' = "idle"
    /\ UNCHANGED <<hook, nodes, walker, textNodes, idx, visited, pre, last>>

\* the Enable toggle's onChange (main.ts:139-142)
SetEnabled(value) ==
    /\ pc = "idle"
    /\ settings' = [settings EXCEPT !["enabled"] = value]
    /\ UNCHANGED <<pc, hook, nodes, walker, textNodes, idx, visited, pre, last>>

\* the Trigger word field's onChange (main.ts:150-153)
SetTriggerWord(value) ==
    /\ pc = "idle"
    /\ settings' = [settings EXCEPT
                       !["triggerWord"] = IF value = <<>> THEN DefaultTriggerWord ELSE value]
    /\ UNCHANGED <<pc, hook, nodes, walker, textNodes, idx, visited, pre, last>>

\* the Break method dropdown's onChange (main.ts:162-165)
SetBreakMethod(value) ==
    /\ pc = "idle"
    /\ settings' = [settings EXCEPT !["breakMethod"] = value]
    /\ UNCHANGED <<pc, hook, nodes, walker, textNodes, idx, visited, pre, last>>

\* the host renders an element and is about to run the registered
\* post-processors on it, the first one first
Render(items) ==
    /\ pc = "idle"
    /\ nodes' = BuildArena(items)
    /\ pre' = nodes'
    /\ hook' = 1
    /\ pc' = "hook"
    /\ NoCall
    /\ UNCHANGED settings

\* a post-processor has returned: the host runs the next one, or is done
HookReturns ==
    IF hook = 1 THEN hook' = 2 /\ pc' = "hook" ELSE hook' = hook /\ pc' = "done"

\* a bug: the enabled flag is not looked at
DisabledNever(s) == FALSE

\* if (!this.settings.enabled) return (main.ts:23, main.ts:28)
Disabled(s) == ~s.enabled

\* a registered post-processor called while the plugin is disabled
PostProcessorDisabled ==
    /\ pc = "hook"
    /\ Disabled(settings)
    /\ HookReturns
    /\ UNCHANGED <<settings, nodes, walker, textNodes, idx, visited, pre, last>>

\* a registered post-processor called while enabled: processLineBreaks (the
\* second one through processLivePreview, main.ts:70-72) creates its walker
\* and its empty textNodes (main.ts:48-55)
processLineBreaks ==
    /\ pc = "hook"
    /\ ~Disabled(settings)
    /\ walker' = RootOf(nodes)
    /\ textNodes' = <<>>
    /\ idx' = 0
    /\ visited' = <<>>
    /\ pre' = nodes
    /\ last' = NoSplice
    /\ pc' = "scan"
    /\ UNCHANGED <<settings, hook, nodes>>

\* one turn of while (node = walker.nextNode()) (main.ts:56-60)
WalkerNext ==
    /\ pc = "scan"
    /\ LET node == nextNode(nodes, walker)
       IN  IF node = 0
           THEN /\ pc' = "mutate"
                /\ idx' = 1
                /\ UNCHANGED <<walker, textNodes, visited>>
           ELSE /\ walker' = node
                /\ visited' = Append(visited, node)
                /\ textNodes' = IF includes(nodes[node].data, settings.triggerWord)
                                THEN Append(textNodes, node) ELSE textNodes
                /\ UNCHANGED <<pc, idx>>
    /\ UNCHANGED <<settings, hook, nodes, pre, last>>

\* one callback of textNodes.forEach (main.ts:62-67)
ForEachTextNode ==
    /\ pc = "mutate"
    /\ idx <= Len(textNodes)
    /\ LET textNode == textNodes[idx]
           text     == nodes[textNode].data
           r        == IF includes(text, settings.triggerWord)
                       THEN replaceTextNodeWithBreaks(nodes, textNode, text, settings)
                       ELSE [ns |-> nodes, frag |-> <<>>, done |-> FALSE]
           parent   == nodes[textNode].parent
       IN  /\ nodes' = r.ns
           /\ last' = [kind   |-> IF r.done THEN "replaced" ELSE "skipped",
                       leaf   |-> textNode,
                       text   |-> text,
                       parent |-> parent,
                       before |-> IF parent = 0 THEN <<>> ELSE nodes[parent].children,
                       frag   |-> r.frag]
    /\ idx' = idx + 1
    /\ UNCHANGED <<settings, pc, hook, walker, textNodes, visited, pre>>

\* forEach is over: processLineBreaks returns, and so does the post-processor
ProcessReturns ==
    /\ pc = "mutate"
    /\ idx > Len(textNodes)
    /\ HookReturns
    /\ UNCHANGED <<settings, nodes, walker, textNodes, idx, visited, pre, last>>

\* the host drops the displayed element; the settings tab is used between
\* render passes
Close ==
    /\ pc = "done"
    /\ pc' = "idle"
    /\ hook' = 0
    /\ nodes' = <<>>
    /\ pre' = <<>>
    /\ NoCall
    /\ UNCHANGED settings

Next ==
    \/ \E data \in StoredData : onload(data)
    \/ \E value \in BOOLEAN : SetEnabled(value)
    \/ \E value \in TriggerWords \cup {DefaultTriggerWord} : SetTriggerWord(value)
    \/ \E value \in BreakMethods : SetBreakMethod(value)
    \/ \E items \in RenderedTrees : Render(items)
    \/ PostProcessorDisabled
    \/ processLineBreaks
    \/ WalkerNext
    \/ ForEachTextNode
    \/ ProcessReturns
    \/ Close

Spec == Init /\ [][Next]_vars

---------------------------------------------------------------------------
(* Vocabulary of the properties *)

Token == settings.triggerWord

\* the start positions of the occurrences of a non-empty tok in s, found left
\* to right from position i on, no two of them overlapping
RECURSIVE MatchStarts(_, _, _)
MatchStarts(s, tok, i) ==
    IF i + Len(tok) - 1 > Len(s) THEN <<>>
    ELSE IF SubSeq(s, i, i + Len(tok) - 1) = tok
         THEN <<i>> \o MatchStarts(s, tok, i + Len(tok))
         ELSE MatchStarts(s, tok, i + 1)

\* the parts p0..pN a text splits into: the slices between the occurrences of
\* a non-empty token; the single characters for the empty token
PartsOf(s, tok) ==
    IF tok = <<>> THEN [i \in 1..Len(s) |-> <<s[i]>>]
    ELSE LET st == MatchStarts(s, tok, 1)
             from(k) == IF k = 1 THEN 1 ELSE st[k - 1] + Len(tok)
             to(k) == IF k = Len(st) + 1 THEN Len(s) ELSE st[k] - 1
         IN  [k \in 1..(Len(st) + 1) |-> SubSeq(s, from(k), to(k))]

BreakMarker == [kind |-> "break", data |-> <<>>]
TextFragment(part) == [kind |-> "text", data |-> part]

\* a spliced node sequence read back from the arena
ItemsOf(ns, frag) ==
    [i \in 1..Len(frag) |->
        IF IsText(ns, frag[i]) THEN TextFragment(ns[frag[i]].data) ELSE BreakMarker]

\* the sequence the parts from position i on call for
RECURSIVE ExpectedItems(_, _)
ExpectedItems(parts, i) ==
    IF i > Len(parts) THEN <<>>
    ELSE (IF parts[i] # <<>> THEN <<TextFragment(parts[i])>> ELSE <<>>)
         \o (IF i < Len(parts) THEN <<BreakMarker>> ELSE <<>>)
         \o ExpectedItems(parts, i + 1)

\* the items joined back, each break marker standing for the token
RECURSIVE Rejoin(_, _)
Rejoin(items, tok) ==
    IF items = <<>> THEN <<>>
    ELSE (IF Head(items).kind = "break" THEN tok ELSE Head(items).data)
         \o Rejoin(Tail(items), tok)

Markers(items) == SelectSeq(items, LAMBDA it : it.kind = "break")

\* a forEach callback has just run and forEach has not returned
Spliced == pc = "mutate" /\ last.kind = "replaced"

LastItems == ItemsOf(nodes, last.frag)

\* the text of the text nodes that are the children of element n
ContentOf(ns, n) == [i \in 1..Len(ns[n].children) |-> ns[ns[n].children[i]].data]

---------------------------------------------------------------------------
(* C1 *)

\* C1: round trip.  After a leaf whose text holds N >= 1 occurrences of the
\* non-empty trigger word has been handled, it has been replaced, the
\* replacement holds exactly N break markers, and the text fragments joined in
\* order, with the trigger word put back for every break marker, give the
\* original text.
C1_RoundTrip ==
    (pc = "mutate" /\ last.kind # "none" /\ Token # <<>>) =>
        LET n == Len(MatchStarts(last.text, Token, 1))
        IN  /\ n >= 1
            /\ last.kind = "replaced"
            /\ Len(Markers(LastItems)) = n
            /\ Rejoin(LastItems, Token) = last.text

\* "aaa" split on "aa": one occurrence, although a second one seems to start
\* inside the first
C1_Witness ==
    /\ Spliced
    /\ Token = <<"a", "a">>
    /\ last.text = <<"a", "a", "a">>
    /\ LastItems = <<BreakMarker, TextFragment(<<"a">>)>>

---------------------------------------------------------------------------
(* C4 *)

\* C4: exact shape.  The spliced sequence is, for the parts p0..pN of the
\* leaf's text in order, a text fragment for pi exactly when pi is not empty,
\* followed by one break marker when i < N.  So no text fragment is empty, and
\* a leaf that is exactly the trigger word becomes one break marker alone.
C4_ExactShape ==
    Spliced =>
        /\ LastItems = ExpectedItems(PartsOf(last.text, Token), 1)
        /\ \A i \in 1..Len(LastItems) :
              LastItems[i].kind = "text" => LastItems[i].data # <<>>
        /\ (last.text = Token => LastItems = <<BreakMarker>>)

\* "a.break..break.a": two adjacent trigger words give two adjacent markers
C4_Witness ==
    /\ Spliced
    /\ Token = DefaultTriggerWord
    /\ last.text = <<"a">> \o DefaultTriggerWord \o DefaultTriggerWord \o <<"a">>
    /\ LastItems = <<TextFragment(<<"a">>), BreakMarker, BreakMarker, TextFragment(<<"a">>)>>

---------------------------------------------------------------------------
(* C5 *)

\* C5: disabled is a no-op.  While the plugin is disabled, both
\* post-processors leave the rendered element as the host made it: no walk, no
\* leaf collected, no node created, removed or replaced.
C5_DisabledNoOp ==
    (pc \in {"hook", "scan", "mutate", "done"} /\ ~settings.enabled) =>
        /\ pc \in {"hook", "done"}
        /\ nodes = pre
        /\ textNodes = <<>>
        /\ visited = <<>>
        /\ last = NoSplice

\* both post-processors have returned, disabled, on an element with a leaf
\* holding the trigger word
C5_Witness ==
    /\ pc = "done"
    /\ ~settings.enabled
    /\ Token # <<>>
    /\ \E n \in Range(TextLeaves(nodes)) : includes(nodes[n].data, Token)

---------------------------------------------------------------------------
(* C7 *)

HasStyle(ns, n, prop, value) == <<prop, value>> \in ns[n].style

\* the shape the claim gives a break marker made for a break method
MarkerAsClaimed(ns, n, method) ==
    CASE method = "zero-width" ->
            /\ ns[n].tag = "span"
            /\ HasStyle(ns, n, "display", "block")
            /\ ContentOf(ns, n) = <<<<ZWSP>>>>
      [] method = "css-break" ->
            /\ ns[n].tag = "span"
            /\ HasStyle(ns, n, "display", "block")
            /\ HasStyle(ns, n, "marginTop", "1em")
            /\ ns[n].children = <<>>
      [] method = "html-br" ->
            /\ ns[n].tag = "br"
            /\ ns[n].style = NoStyle
            /\ ns[n].children = <<>>
      [] OTHER -> FALSE

\* C7: break-style dispatch.  Every break marker spliced in has the shape of
\* the configured break method: zero-width a block span holding a zero-width
\* space, html-br an empty <br>, css-break an empty block span with a top
\* margin, and any other value the same as html-br; the three shapes differ
\* pairwise, so a marker has the shape of no other method.
C7_Dispatch ==
    Spliced =>
        LET method == IF settings.breakMethod \in BreakMethods
                      THEN settings.breakMethod ELSE "html-br"
        IN  \A i \in 1..Len(last.frag) :
                ~IsText(nodes, last.frag[i]) =>
                    /\ MarkerAsClaimed(nodes, last.frag[i], method)
                    /\ \A other \in BreakMethods \ {method} :
                           ~MarkerAsClaimed(nodes, last.frag[i], other)

\* a marker made while the stored break method is none of the three
C7_Witness ==
    /\ Spliced
    /\ settings.breakMethod = UnknownMethod
    /\ \E i \in 1..Len(last.frag) : nodes[last.frag[i]].tag = "br"

---------------------------------------------------------------------------
(* C6 *)

\* the leaves of the element, as the call found it, without the trigger word
Untouchable == {n \in Range(TextLeaves(pre)) : ~includes(pre[n].data, Token)}

\* what one forEach callback may change
FrameOfSplice ==
    (pc = "mutate" /\ idx <= Len(textNodes)) =>
        LET leaf   == textNodes[idx]
            parent == nodes[leaf].parent
            kids   == nodes[parent].children
            k      == PositionIn(kids, leaf)
        IN  IF last'.kind = "replaced"
            THEN /\ nodes'[parent].children =
                        SubSeq(kids, 1, k - 1) \o last'.frag \o SubSeq(kids, k + 1, Len(kids))
                 /\ nodes'[parent] = [nodes[parent] EXCEPT !.children = nodes'[parent].children]
                 /\ nodes'[leaf] = [nodes[leaf] EXCEPT !.parent = 0]
                 /\ \A n \in 1..Len(nodes) : n \notin {parent, leaf} => nodes'[n] = nodes[n]
                 /\ \A i \in 1..Len(last'.frag) :
                        /\ last'.frag[i] > Len(nodes)
                        /\ nodes'[last'.frag[i]].parent = parent
            ELSE nodes' = nodes

\* C6: frame.  A text leaf without the trigger word keeps its text, its parent
\* and its single place among its parent's children; and a replaced leaf's
\* parent has afterwards the children that preceded the leaf, then the
\* replacement sequence, then the children that followed it, every other node
\* of the element being as it was.
C6_Frame ==
    /\ [](pc \in {"scan", "mutate"} =>
            \A n \in Untouchable :
                /\ nodes[n] = pre[n]
                /\ Cardinality({i \in 1..Len(nodes[pre[n].parent].children) :
                                    nodes[pre[n].parent].children[i] = n}) = 1)
    /\ [][FrameOfSplice]_vars

\* a leaf between two siblings has been replaced by more than one node, next
\* to a leaf without the trigger word
C6_Witness ==
    /\ Spliced
    /\ Len(last.frag) > 1
    /\ \E k \in 2..(Len(last.before) - 1) : last.before[k] = last.leaf
    /\ \E n \in Untouchable : pre[n].parent = last.parent

---------------------------------------------------------------------------
(* C8 *)

Created == (Len(pre) + 1)..Len(nodes)

\* C8: collect, then mutate.  The walk returns the text leaves of the element
\* one by one in document order, each once; the element is not changed before
\* the walk has ended; the leaves collected are exactly those holding the
\* trigger word; and no node a splice created is walked, collected or replaced
\* in the same call.
C8_TwoPhase ==
    (pc \in {"scan", "mutate"}) =>
        LET leaves == TextLeaves(pre)
        IN  /\ Len(visited) <= Len(leaves)
            /\ visited = SubSeq(leaves, 1, Len(visited))
            /\ textNodes = SelectSeq(visited, LAMBDA n : includes(pre[n].data, Token))
            /\ pc = "scan" => nodes = pre
            /\ pc = "mutate" => visited = leaves
            /\ \A n \in Created :
                  /\ n \notin Range(visited)
                  /\ n \notin Range(textNodes)
                  /\ nodes[n].parent # 0

\* a call that walked a leaf nested in an element, collected two leaves and
\* has replaced both
C8_Witness ==
    /\ pc = "mutate"
    /\ idx > Len(textNodes)
    /\ Len(textNodes) >= 2
    /\ Len(visited) > Len(textNodes)
    /\ Created # {}
    /\ \E n \in Range(visited) : pre[n].parent # RootOf(pre)

---------------------------------------------------------------------------
(* C9 *)

\* a collected leaf that cannot be replaced: no parent, or fewer than 2 parts
Defective(ns, n) == ns[n].parent = 0 \/ Len(PartsOf(ns[n].data, Token)) < 2

\* a defective leaf is passed over and forEach goes on; any other collected
\* leaf is replaced by the sequence its parts call for
IsolatedStep ==
    (pc = "mutate" /\ idx <= Len(textNodes)) =>
        LET leaf == textNodes[idx]
        IN  /\ pc' = "mutate"
            /\ idx' = idx + 1
            /\ IF Defective(nodes, leaf)
               THEN nodes' = nodes /\ last'.kind = "skipped"
               ELSE /\ last'.kind = "replaced"
                    /\ nodes'[leaf].parent = 0
                    /\ ItemsOf(nodes', last'.frag)
                           = ExpectedItems(PartsOf(nodes[leaf].data, Token), 1)

\* C9: fault isolation per leaf.  A collected leaf without a parent, or whose
\* text splits into fewer than 2 parts, is skipped and left as it was, nothing
\* is raised, and every other collected leaf is still replaced; when forEach
\* is over the defective leaves are untouched and all others are replaced.
C9_FaultIsolation ==
    /\ [][IsolatedStep]_vars
    /\ [](pc = "mutate" /\ idx > Len(textNodes) =>
            \A n \in Range(textNodes) :
                IF Defective(pre, n) THEN nodes[n] = pre[n] ELSE nodes[n].parent = 0)

\* forEach is over: a collected leaf with a single part was skipped, and a
\* leaf collected after it has been replaced
C9_Witness ==
    /\ pc = "mutate"
    /\ idx > Len(textNodes)
    /\ \E i, j \in 1..Len(textNodes) :
          /\ i < j
          /\ Defective(pre, textNodes[i])
          /\ nodes[textNodes[i]] = pre[textNodes[i]]
          /\ ~Defective(pre, textNodes[j])
          /\ nodes[textNodes[j]].parent = 0

---------------------------------------------------------------------------
(* C2, C3, C10: statements the code does not meet *)

\* C2: idempotence.  The second post-processor, which runs processLineBreaks
\* on the element the first one left, replaces nothing: the element is after
\* it as it was before it.
C2_Idempotent ==
    (pc = "done" /\ settings.enabled) => nodes = pre

\* C3: once the settings are loaded the trigger word is never empty.
C3_TriggerWordNeverEmpty ==
    pc # "unloaded" => settings.triggerWord # <<>>

\* C10: postcondition.  After processLineBreaks has returned, enabled and with
\* a non-empty trigger word, no text leaf under the root holds the trigger
\* word, the text inside the break markers included.
C10_NoTriggerWordLeft ==
    ((pc = "done" \/ (pc = "hook" /\ hook = 2)) /\ settings.enabled /\ Token # <<>>) =>
        \A n \in Range(TextLeaves(nodes)) : ~includes(nodes[n].data, Token)

---------------------------------------------------------------------------
(* Extent of the defect behind C2 and C10 *)

\* the zero-width marker's own text is the trigger word
MarkerHoldsTriggerWord ==
    settings.breakMethod = "zero-width" /\ includes(<<ZWSP>>, Token) /\ Token # <<>>

\* in every other configuration the second run changes nothing
IdempotentElsewhere ==
    (pc = "done" /\ settings.enabled /\ ~MarkerHoldsTriggerWord) => nodes = pre

\* in every other configuration with a non-empty trigger word, none is left
NoTriggerWordLeftElsewhere ==
    ((pc = "done" \/ (pc = "hook" /\ hook = 2)) /\ settings.enabled /\ Token # <<>>
        /\ ~MarkerHoldsTriggerWord) =>
        \A n \in Range(TextLeaves(nodes)) : ~includes(nodes[n].data, Token)

=============================================================================
